---- MODULE Spec2Model ----
(***************************************************************************)
(* A state-machine model of the game server in src/server.js: the          *)
(* GameState class (grid, players, bombs, explosions, power-ups, round     *)
(* state, diff log), the socket handlers, gameLoop and the restart and     *)
(* countdown timers.                                                       *)
(*                                                                         *)
(* Time.  The code compares Date.now() against stored deadlines only, so   *)
(* the model stores every time stamp relative to the present: a bomb's     *)
(* timer field holds timer - Date.now() and an explosion's createdAt holds *)
(* createdAt - Date.now().  AdvanceTime lets time pass.  A handler runs at *)
(* one instant.                                                            *)
(*                                                                         *)
(* Keys.  this.players, this.bombs and this.explosions are objects with    *)
(* string keys, which JavaScript enumerates in insertion order; they are   *)
(* sequences here, and writing an existing key replaces the entry in place.*)
(***************************************************************************)
EXTENDS Integers, Sequences, FiniteSets, TLC

\* ---------------------------------------------------------------- constants
GRID_WIDTH == 21
GRID_HEIGHT == 21
BOMB_TIMER == 3000
EXPLOSION_DURATION == 3000
MAX_PLAYERS == 17
NUM_COLORS == 17
COUNTDOWN_START == 5
SPEED_STEP == 5
SPEED_CAP == 30
DEFAULT_SPEED == 10
DEFAULT_RADIUS == 2
DEFAULT_BOMBS_MAX == 1

EMPTY == 0
SOLID == 1
SOFT == 2

POWER_UP_TYPES == {"speed", "bomb_count", "bomb_range"}

PLAYER_SPAWNS ==
    << [x |-> 1, y |-> 1],
       [x |-> GRID_WIDTH - 2, y |-> GRID_HEIGHT - 2],
       [x |-> GRID_WIDTH - 2, y |-> 1],
       [x |-> 1, y |-> GRID_HEIGHT - 2] >>

\* ------------------------------------------------------------------- bounds
\* Connection identifiers (socket.id values) in use at one time.
NumSockets == 2
\* The intents that take effect in one run are bounded by kind, in one of
\* three ways (Budgets): one connection that joins again and again, one
\* connection that walks, or NumSockets connections that do not move.
RejoinJoins == 4
RejoinMoves == 1
RejoinBombs == 3
WalkJoins == 1
WalkMoves == 2
WalkBombs == 1
DuoJoins == 3
DuoBombs == 2
DuoLeaves == 1
\* Events the intent handlers may leave in the diff log between two hand-offs.
MaxDiffs == 2
\* Milliseconds by which AdvanceTime moves the clock.
TimeStep == 1500
\* Frames of createExplosion the JavaScript call stack holds.
StackLimit == 6

\* The intents of a run of SpecBlast.
BlastMoves == 2
BlastBombs == 2

\* The connections and the intents of a run of SpecCrowd.
CrowdSockets == 5
CrowdJoins == 1
CrowdMoves == 1
CrowdBombs == 1
CrowdLeaves == 1

Sockets == 1..NumSockets

Budgets ==
    { [sockets |-> 1, join |-> RejoinJoins, move |-> RejoinMoves,
       bomb |-> RejoinBombs, leave |-> 0],
      [sockets |-> 1, join |-> WalkJoins, move |-> WalkMoves,
       bomb |-> WalkBombs, leave |-> 0],
      [sockets |-> NumSockets, join |-> DuoJoins, move |-> 0,
       bomb |-> DuoBombs, leave |-> DuoLeaves] }

\* The nickname each connection sends with joinGame: none from the first,
\* a name from the others.
NicknameOf(s) == IF s = 1 THEN "" ELSE "Ann" \o ToString(s)
Directions == {"up", "down", "left", "right"}
MoveInputs == Directions \cup {"jump"}

VARIABLES
    players,        \* this.players, in key order
    bombs,          \* this.bombs, in key order
    explosions,     \* this.explosions, in key order
    powerUps,       \* this.powerUps
    grid,           \* this.grid[y][x]
    winner,         \* this.winner
    isGameOver,     \* this.isGameOver
    diffs,          \* this.diffs
    restartTimers,  \* pending setTimeout(startRound) callbacks
    countdowns,     \* the count of every running countdownInterval
    emitted,        \* the gameUpdate batch the last step handed to io.emit
    crashed,        \* an uncaught RangeError has ended the process
    calls,          \* the createExplosion invocations of the last gameLoop
    ignored,        \* the last step was a handler that returned early
    left            \* the intents the run may still take, by kind

vars == << players, bombs, explosions, powerUps, grid, winner, isGameOver,
           diffs, restartTimers, countdowns, emitted, crashed,
           calls, ignored, left >>

NULL == "null"
DRAW == "Draw!"

\* ------------------------------------------------------------------ helpers
\* The sequence s without its k-th entry
RemoveAt(s, k) == SubSeq(s, 1, k - 1) \o SubSeq(s, k + 1, Len(s))

Min(a, b) == IF a < b THEN a ELSE b

InBounds(x, y) == ~(x < 0 \/ x >= GRID_WIDTH \/ y < 0 \/ y >= GRID_HEIGHT)

\* queueUpdate(type, data)
QueueUpdate(log, type, data) == Append(log, [type |-> type, data |-> data])

\* ------------------------------------------------------------ initializeGrid
\* Step 1 of initializeGrid without the inversion: pillars on the cells with
\* x and y both even, open paths elsewhere
BaseTileClassic(x, y) ==
    LET isBorder == y = 0 \/ y = GRID_HEIGHT - 1 \/ x = 0 \/ x = GRID_WIDTH - 1
        wasPillarInOldMap == (x % 2 = 0 /\ y % 2 = 0)
    IN IF isBorder THEN SOLID
       ELSE IF wasPillarInOldMap THEN SOLID ELSE EMPTY

\* Step 1 of initializeGrid: the border is SOLID; inside it the cells with x
\* and y both even are EMPTY and every other cell is SOLID.
BaseTile(x, y) ==
    LET isBorder == y = 0 \/ y = GRID_HEIGHT - 1 \/ x = 0 \/ x = GRID_WIDTH - 1
        wasPillarInOldMap == (x % 2 = 0 /\ y % 2 = 0)
    IN IF isBorder THEN SOLID
       ELSE IF wasPillarInOldMap THEN EMPTY ELSE SOLID

\* Step 2: the cells around every spawn, the outer border wall excepted.
SpawnZones ==
    { <<PLAYER_SPAWNS[k].x + dx, PLAYER_SPAWNS[k].y + dy>> :
          k \in 1..Len(PLAYER_SPAWNS), dx \in -1..1, dy \in -1..1 }
    \cap { c \in (0..GRID_WIDTH - 1) \X (0..GRID_HEIGHT - 1) :
             /\ InBounds(c[1], c[2])
             /\ c[1] # 0 /\ c[1] # GRID_WIDTH - 1
             /\ c[2] # 0 /\ c[2] # GRID_HEIGHT - 1 }

\* The cells for which step 3 draws Math.random(): EMPTY after steps 1 and 2,
\* inside the border, and outside every spawn zone.
SoftCandidates ==
    { c \in (1..GRID_WIDTH - 2) \X (1..GRID_HEIGHT - 2) :
        /\ c \notin SpawnZones
        /\ BaseTile(c[1], c[2]) = EMPTY }

\* The outcomes of the Math.random() < 0.75 draws the model explores: the
\* set of candidate cells that turn SOFT.
SoftDraws ==
    { SoftCandidates,
      { c \in SoftCandidates : (c[1] + c[2]) % 4 = 0 } }

\* initializeGrid(), with soft the cells whose draw was below 0.75.
InitializeGrid(soft) ==
    [y \in 0..GRID_HEIGHT - 1 |->
        [x \in 0..GRID_WIDTH - 1 |->
            LET step1 == BaseTile(x, y)
                step2 == IF <<x, y>> \in SpawnZones THEN EMPTY ELSE step1
            IN IF /\ y >= 1 /\ y < GRID_HEIGHT - 1 /\ x >= 1 /\ x < GRID_WIDTH - 1
                  /\ step2 = EMPTY
                  /\ <<x, y>> \notin SpawnZones
                  /\ <<x, y>> \in soft
               THEN SOFT ELSE step2]]

\* The grids initializeGrid() may produce.
GeneratedGrids == { InitializeGrid(soft) : soft \in SoftDraws }

\* ------------------------------------------------------------ findSpawnPoint
\* Math.hypot(dx, dy) is compared only with other such values; the squares
\* order the same way.
Dist2(x, y, p) == (x - p.x) * (x - p.x) + (y - p.y) * (y - p.y)

MinDist2(x, y, ps) ==
    LET F[i \in 0..Len(ps)] ==
            IF i = 0 THEN -1
            ELSE LET d == Dist2(x, y, ps[i])
                 IN IF F[i - 1] = -1 \/ d < F[i - 1] THEN d ELSE F[i - 1]
    IN F[Len(ps)]

\* The scan of findSpawnPoint for playerIndex >= 4: row by row, and in a row
\* cell by cell.  The state of the scan is <<bestSpot, maxDist, returned>>.
ScanSpawn(g, ps) ==
    LET w == GRID_WIDTH - 2
        h == GRID_HEIGHT - 2
        Visit(prev, x, y) ==
            IF prev[3] \/ g[y][x] # EMPTY THEN prev
            ELSE IF Len(ps) = 0
                 THEN << [x |-> x, y |-> y], prev[2], TRUE >>
                 ELSE LET d == MinDist2(x, y, ps)
                      IN IF d > prev[2]
                         THEN << [x |-> x, y |-> y], d, FALSE >>
                         ELSE prev
        Row(start, y) ==
            LET C[x \in 0..w] ==
                    IF x = 0 THEN start
                    ELSE LET prev == C[x - 1]
                         IN Visit(prev, x, y)
            IN C[w]
        R[y \in 0..h] ==
            IF y = 0 THEN << [x |-> -1, y |-> -1], -1, FALSE >>
            ELSE LET prev == R[y - 1]
                 IN IF prev[3] THEN prev ELSE Row(prev, y)
    IN R[h][1]

\* findSpawnPoint without its scan: bestSpot is returned as initialised
FindSpawnPointNoScan(playerIndex, g, ps) ==
    IF playerIndex < 4 THEN PLAYER_SPAWNS[playerIndex + 1]
    ELSE [x |-> -1, y |-> -1]

\* findSpawnPoint(playerIndex), reading this.grid and this.players.
FindSpawnPoint(playerIndex, g, ps) ==
    IF playerIndex < 4 THEN PLAYER_SPAWNS[playerIndex + 1]
    ELSE ScanSpawn(g, ps)

\* ------------------------------------------------------------------ players
HasPlayer(ps, id) == \E i \in 1..Len(ps) : ps[i].id = id

PlayerIdx(ps, id) == CHOOSE i \in 1..Len(ps) : ps[i].id = id

\* this.players[id] = player: a new key goes last, an existing key keeps its
\* place.
PutPlayer(ps, player) ==
    IF HasPlayer(ps, player.id)
    THEN [ps EXCEPT ![PlayerIdx(ps, player.id)] = player]
    ELSE Append(ps, player)

\* nickname || `Player ${playerCount + 1}`
NicknameOr(nickname, playerCount) ==
    IF nickname = "" THEN "Player " \o ToString(playerCount + 1) ELSE nickname

NewPlayer(id, nickname, playerCount, spawn) ==
    [ id |-> id,
      nickname |-> NicknameOr(nickname, playerCount),
      x |-> spawn.x,
      y |-> spawn.y,
      color |-> playerCount % NUM_COLORS,
      isAlive |-> TRUE,
      bombsMax |-> DEFAULT_BOMBS_MAX,
      bombsPlaced |-> 0,
      explosionRadius |-> DEFAULT_RADIUS,
      speed |-> DEFAULT_SPEED,
      direction |-> "down" ]

\* isPassable without its loop over this.bombs
IsPassableIgnoringBombs(g, bs, x, y) ==
    IF ~InBounds(x, y) THEN FALSE
    ELSE ~(g[y][x] = SOLID \/ g[y][x] = SOFT)

\* isPassable(x, y)
IsPassable(g, bs, x, y) ==
    IF ~InBounds(x, y) THEN FALSE
    ELSE IF g[y][x] = SOLID \/ g[y][x] = SOFT THEN FALSE
    ELSE ~(\E i \in 1..Len(bs) : bs[i].x = x /\ bs[i].y = y)

\* -------------------------------------------------------------------- bombs
\* `${playerId}-${Date.now()}`: the owner and the instant of placement, which
\* the remaining fuse determines for a bomb that has not expired.
BombId(b) == << b.ownerId, b.timer >>

HasBomb(bs, id) == \E i \in 1..Len(bs) : BombId(bs[i]) = id

GetBomb(bs, id) == bs[CHOOSE i \in 1..Len(bs) : BombId(bs[i]) = id]

\* delete this.bombs[bombId]
DeleteBomb(bs, id) == SelectSeq(bs, LAMBDA b : BombId(b) # id)

\* this.bombs[bombId] = bomb
PutBomb(bs, bomb) ==
    IF HasBomb(bs, BombId(bomb))
    THEN [i \in 1..Len(bs) |->
             IF BombId(bs[i]) = BombId(bomb) THEN bomb ELSE bs[i]]
    ELSE Append(bs, bomb)

\* `${x},${y}-${Date.now()}`
ExplosionId(e) == << e.x, e.y, e.createdAt >>

\* this.explosions[explosionId] = explosion
PutExplosion(es, e) ==
    IF \E i \in 1..Len(es) : ExplosionId(es[i]) = ExplosionId(e)
    THEN [i \in 1..Len(es) |->
             IF ExplosionId(es[i]) = ExplosionId(e) THEN e ELSE es[i]]
    ELSE Append(es, e)

\* this.powerUps[`powerup-${x}-${y}`] = powerUp
PutPowerUp(pus, pu) ==
    IF \E i \in 1..Len(pus) : pus[i].x = pu.x /\ pus[i].y = pu.y
    THEN [i \in 1..Len(pus) |->
             IF pus[i].x = pu.x /\ pus[i].y = pu.y THEN pu ELSE pus[i]]
    ELSE Append(pus, pu)

\* The outcomes of trySpawnPowerUp's two Math.random() draws: no power-up, or
\* one of the three types.  One outcome stands for every draw of a handler.
PowerUpDraws == {"none"} \cup POWER_UP_TYPES

\* trySpawnPowerUp(x, y), on the state record st
TrySpawnPowerUp(st, x, y, rnd) ==
    IF rnd # "none"
    THEN LET powerUp == [x |-> x, y |-> y, type |-> rnd]
         IN [st EXCEPT !.powerUps = PutPowerUp(@, powerUp),
                       !.diffs = QueueUpdate(@, "powerUpSpawned", powerUp)]
    ELSE st

\* const directions = [{0,1}, {0,-1}, {1,0}, {-1,0}]
ExplosionDirections == << <<0, 1>>, <<0, -1>>, <<1, 0>>, <<-1, 0>> >>

\* owner.bombsPlaced--, when this.players[ownerId] exists
ReleaseBomb(ps, ownerId) ==
    IF HasPlayer(ps, ownerId)
    THEN [ps EXCEPT ![PlayerIdx(ps, ownerId)].bombsPlaced = @ - 1]
    ELSE ps

\* createExplosion calls itself from inside its loops, so it is modelled with
\* its call stack.  A run of updateBombs is a record m of
\*   st      this.grid, this.bombs, this.explosions, this.powerUps,
\*           this.players and this.diffs, with the invocations so far (calls)
\*           and overflow, set once a call needs more than StackLimit frames:
\*           the RangeError that call throws unwinds every frame, so nothing
\*           is written after it;
\*   stack   the frames of createExplosion, the running one last;
\*   pending the bombs explodedBombs.forEach has still to visit.
\* A frame holds the arguments x, y, ownerId, radius, the index d of the
\* direction and the step i of the two for loops, explosion.tiles, and, while
\* the for-in loop over this.bombs runs (inChain), the keys that loop
\* enumerates, the position k in them and the tile read before it.

\* The frame of a call createExplosion(bomb.x, bomb.y, bomb.ownerId, bomb.radius)
NewFrame(bomb) ==
    [ x |-> bomb.x, y |-> bomb.y, ownerId |-> bomb.ownerId, radius |-> bomb.radius,
      d |-> 1, i |-> 1, tiles |-> { <<bomb.x, bomb.y>> },
      inChain |-> FALSE, keys |-> << >>, k |-> 1, tile |-> EMPTY ]

\* The record of one createExplosion invocation: the bomb it is for, and
\* whether the chain-reaction loop made it (the bomb is then still in
\* this.bombs) or updateBombs did (the bomb was deleted first).
Called(st, bomb, chained) ==
    [st EXCEPT !.calls = Append(@, [id |-> BombId(bomb), x |-> bomb.x, y |-> bomb.y,
                                    radius |-> bomb.radius, chained |-> chained])]

\* The call of createExplosion for bomb: a new frame, or the RangeError.
Call(m, bomb, chained) ==
    IF Len(m.stack) + 1 > StackLimit
    THEN [m EXCEPT !.st = [Called(m.st, bomb, chained) EXCEPT !.overflow = TRUE]]
    ELSE [m EXCEPT !.st = Called(m.st, bomb, chained),
                   !.stack = Append(@, NewFrame(bomb))]

\* break, or the end, of the inner for loop: the next direction
NextDirection(f) == [f EXCEPT !.d = @ + 1, !.i = 1, !.inChain = FALSE]

\* The end of createExplosion (after both for loops): the explosion is
\* stored and queued and the owner's bombsPlaced decremented; the frame
\* returns.  A caller is inside its for-in loop and goes on with
\* delete this.bombs[bombId]; without a caller, forEach calls for the next
\* exploded bomb.
Return(m) ==
    LET n == Len(m.stack)
        f == m.stack[n]
        explosion == [x |-> f.x, y |-> f.y, tiles |-> f.tiles, createdAt |-> 0]
        st1 == [m.st EXCEPT
                   !.explosions = PutExplosion(@, explosion),
                   !.diffs = QueueUpdate(@, "explosion", explosion),
                   !.players = ReleaseBomb(@, f.ownerId)]
    IN IF n > 1
       THEN LET c == m.stack[n - 1]
            IN [m EXCEPT
                   !.st = [st1 EXCEPT !.bombs = DeleteBomb(@, c.keys[c.k])],
                   !.stack = Append(SubSeq(m.stack, 1, n - 2),
                                    [c EXCEPT !.k = @ + 1])]
       ELSE IF Len(m.pending) > 0
       THEN Call([m EXCEPT !.st = st1, !.stack = << >>, !.pending = Tail(@)],
                 Head(m.pending), FALSE)
       ELSE [m EXCEPT !.st = st1, !.stack = << >>]

\* The inner for loop without `if (tile === TILE.SOLID) break`
RayStepThroughWalls(m) ==
    LET n == Len(m.stack)
        f == m.stack[n]
        dir == ExplosionDirections[f.d]
        newX == f.x + dir[1] * f.i
        newY == f.y + dir[2] * f.i
    IN IF f.i > f.radius THEN [m EXCEPT !.stack[n] = NextDirection(f)]
       ELSE IF ~InBounds(newX, newY) THEN [m EXCEPT !.stack[n] = NextDirection(f)]
       ELSE [m EXCEPT !.stack[n] =
                [f EXCEPT !.tiles = @ \cup { <<newX, newY>> },
                          !.inChain = TRUE,
                          !.keys = [k \in 1..Len(m.st.bombs) |-> BombId(m.st.bombs[k])],
                          !.k = 1,
                          !.tile = m.st.grid[newY][newX]]]

\* One pass of the inner for loop up to the for-in loop: the bounds check,
\* the SOLID check, and the tile added to explosion.tiles.
RayStep(m) ==
    LET n == Len(m.stack)
        f == m.stack[n]
        dir == ExplosionDirections[f.d]
        newX == f.x + dir[1] * f.i
        newY == f.y + dir[2] * f.i
    IN IF f.i > f.radius THEN [m EXCEPT !.stack[n] = NextDirection(f)]
       ELSE IF ~InBounds(newX, newY) THEN [m EXCEPT !.stack[n] = NextDirection(f)]
       ELSE LET tile == m.st.grid[newY][newX]
            IN IF tile = SOLID THEN [m EXCEPT !.stack[n] = NextDirection(f)]
               ELSE [m EXCEPT !.stack[n] =
                        [f EXCEPT !.tiles = @ \cup { <<newX, newY>> },
                                  !.inChain = TRUE,
                                  !.keys = [k \in 1..Len(m.st.bombs) |->
                                               BombId(m.st.bombs[k])],
                                  !.k = 1,
                                  !.tile = tile]]

\* for (const bombId in this.bombs), from key number k on: the keys are those
\* of the time the loop began, and a key is visited if it is still present.
\* The loop runs to the next bomb on the tile, which it detonates, or to its
\* end; then a SOFT tile becomes EMPTY and ends the direction.
ChainStep(m, rnd) ==
    LET n == Len(m.stack)
        f == m.stack[n]
        dir == ExplosionDirections[f.d]
        newX == f.x + dir[1] * f.i
        newY == f.y + dir[2] * f.i
        hits == { k \in f.k..Len(f.keys) :
                    /\ HasBomb(m.st.bombs, f.keys[k])
                    /\ GetBomb(m.st.bombs, f.keys[k]).x = newX
                    /\ GetBomb(m.st.bombs, f.keys[k]).y = newY }
    IN IF hits # {}
       THEN LET k == CHOOSE k \in hits : \A j \in hits : k <= j
            IN Call([m EXCEPT !.stack[n].k = k], GetBomb(m.st.bombs, f.keys[k]), TRUE)
       ELSE IF f.tile = SOFT
       THEN LET st1 == [m.st EXCEPT
                          !.grid[newY][newX] = EMPTY,
                          !.diffs = QueueUpdate(@, "tileChanged",
                                        [x |-> newX, y |-> newY, type |-> EMPTY])]
            IN [m EXCEPT !.st = TrySpawnPowerUp(st1, newX, newY, rnd),
                         !.stack[n] = NextDirection(f)]
       ELSE [m EXCEPT !.stack[n] = [f EXCEPT !.i = @ + 1, !.inChain = FALSE]]

\* createExplosion(x, y, ownerId, radius): one step of the running frame
CreateExplosion(m, rnd) ==
    LET f == m.stack[Len(m.stack)]
    IN IF f.inChain THEN ChainStep(m, rnd)
       ELSE IF f.d > Len(ExplosionDirections) THEN Return(m)
       ELSE RayStep(m)

\* A run is over when the last frame has returned or a call has thrown.
Returned(m) == m.st.overflow \/ m.stack = << >>

\* Eight steps of a run
Steps(m, rnd) ==
    LET G[j \in 0..8] ==
            IF j = 0 THEN m
            ELSE LET p == G[j - 1]
                 IN IF Returned(p) THEN p ELSE CreateExplosion(p, rnd)
    IN G[8]

\* The steps, in eights, after which every frame of a run has returned: a
\* frame takes at most one step for each tile of its four rays, one to leave
\* each ray, one for each call it makes and one to return.
StepsOf(bs) ==
    LET r == IF bs = << >> THEN 0
             ELSE CHOOSE r \in { bs[i].radius : i \in 1..Len(bs) } :
                      \A i \in 1..Len(bs) : bs[i].radius <= r
    IN ((Len(bs) + StackLimit + 1) * (4 * (r + 1) + Len(bs) + 2)) \div 8 + 1

\* updateBombs()
UpdateBombs(st, rnd) ==
    LET explodedBombs == SelectSeq(st.bombs, LAMBDA b : 0 >= b.timer)
        st0 == [st EXCEPT !.bombs = SelectSeq(@, LAMBDA b : ~(0 >= b.timer))]
        m0 == Call([st |-> st0, stack |-> << >>, pending |-> Tail(explodedBombs)],
                   Head(explodedBombs), FALSE)
        F[i \in 0..StepsOf(st.bombs)] ==
            IF i = 0 THEN m0
            ELSE LET m == F[i - 1]
                 IN IF Returned(m) THEN m ELSE Steps(m, rnd)
    IN IF explodedBombs = << >> THEN st0
       ELSE F[StepsOf(st.bombs)].st

\* updateExplosions(): the pass over the players, then the pass that deletes
\* the explosions older than EXPLOSION_DURATION.
UpdateExplosions(st) ==
    LET es == st.explosions
        \* one player against explosions 1..j
        Hit(p, j) == <<p.x, p.y>> \in es[j].tiles
        G[i \in 0..Len(st.players)] ==
            IF i = 0 THEN [players |-> st.players, diffs |-> st.diffs]
            ELSE LET prev == G[i - 1]
                     p == st.players[i]
                     hits == IF p.isAlive
                             THEN Cardinality({ j \in 1..Len(es) : Hit(p, j) })
                             ELSE 0
                     Died[n \in 0..hits] ==
                         IF n = 0 THEN prev.diffs
                         ELSE QueueUpdate(Died[n - 1], "playerDied", [id |-> p.id])
                 IN IF hits = 0 THEN prev
                    ELSE [players |-> [prev.players EXCEPT ![i].isAlive = FALSE],
                          diffs |-> Died[hits]]
    IN [st EXCEPT
           !.players = G[Len(st.players)].players,
           !.diffs = G[Len(st.players)].diffs,
           !.explosions = SelectSeq(@, LAMBDA e :
                              ~(0 >= e.createdAt + EXPLOSION_DURATION))]

\* checkForWinner with alivePlayers.length < 1 for <= 1
CheckForWinnerStrict(r, ps) ==
    IF r.isGameOver THEN r
    ELSE LET alivePlayers == SelectSeq(ps, LAMBDA p : p.isAlive)
         IN IF Len(ps) >= 2 /\ Len(alivePlayers) < 1
            THEN [isGameOver |-> TRUE,
                  winner |-> DRAW,
                  diffs |-> QueueUpdate(r.diffs, "gameOver", [winner |-> DRAW]),
                  restartTimers |-> r.restartTimers + 1]
            ELSE r

\* checkForWinner(), on the record r of isGameOver, winner, diffs and
\* restartTimers
CheckForWinner(r, ps) ==
    IF r.isGameOver THEN r
    ELSE LET alivePlayers == SelectSeq(ps, LAMBDA p : p.isAlive)
             totalPlayers == Len(ps)
         IN IF totalPlayers >= 2 /\ Len(alivePlayers) <= 1
            THEN LET w == IF Len(alivePlayers) = 1 THEN alivePlayers[1].nickname
                          ELSE DRAW
                 IN [isGameOver |-> TRUE,
                     winner |-> w,
                     diffs |-> QueueUpdate(r.diffs, "gameOver", [winner |-> w]),
                     restartTimers |-> r.restartTimers + 1]
            ELSE r

\* checkPowerUpCollision(playerId), on the record r of players, powerUps, diffs
CheckPowerUpCollision(r, playerId) ==
    IF ~HasPlayer(r.players, playerId) THEN r
    ELSE LET i == PlayerIdx(r.players, playerId)
             player == r.players[i]
             found == { k \in 1..Len(r.powerUps) :
                          r.powerUps[k].x = player.x /\ r.powerUps[k].y = player.y }
         IN IF found = {} THEN r
            ELSE LET k == CHOOSE k \in found : \A j \in found : k <= j
                     powerUp == r.powerUps[k]
                     player1 ==
                         IF powerUp.type = "speed"
                         THEN [player EXCEPT !.speed = Min(@ + SPEED_STEP, SPEED_CAP)]
                         ELSE IF powerUp.type = "bomb_count"
                         THEN [player EXCEPT !.bombsMax = @ + 1]
                         ELSE IF powerUp.type = "bomb_range"
                         THEN [player EXCEPT !.explosionRadius = @ + 1]
                         ELSE player
                 IN [players |-> [r.players EXCEPT ![i] = player1],
                     powerUps |-> RemoveAt(r.powerUps, k),
                     diffs |-> QueueUpdate(r.diffs, "powerUpCollected",
                                   [x |-> powerUp.x, y |-> powerUp.y,
                                    playerId |-> player.id])]

\* The target cell of movePlayer's switch (direction)
StepX(x, direction) ==
    IF direction = "left" THEN x - 1 ELSE IF direction = "right" THEN x + 1 ELSE x

StepY(y, direction) ==
    IF direction = "up" THEN y - 1 ELSE IF direction = "down" THEN y + 1 ELSE y

\* reset() without player.isAlive = true
ResetPlayersKeepingDead(connectedPlayers, g) ==
    [i \in 1..Len(connectedPlayers) |->
        LET p == connectedPlayers[i]
            spawn == FindSpawnPoint(i - 1, g, SubSeq(connectedPlayers, 1, i - 1))
        IN [p EXCEPT !.x = spawn.x, !.y = spawn.y,
                     !.bombsMax = DEFAULT_BOMBS_MAX, !.bombsPlaced = 0,
                     !.explosionRadius = DEFAULT_RADIUS,
                     !.speed = DEFAULT_SPEED, !.direction = "down"]]

\* The players of reset(): every connected player, in key order, on the spawn
\* of its index, with this.players refilled as the loop goes.
ResetPlayers(connectedPlayers, g) ==
    LET F[i \in 0..Len(connectedPlayers)] ==
            IF i = 0 THEN << >>
            ELSE LET p == connectedPlayers[i]
                     prev == F[i - 1]
                     spawn == FindSpawnPoint(i - 1, g, prev)
                 IN PutPlayer(prev,
                        [p EXCEPT !.x = spawn.x, !.y = spawn.y, !.isAlive = TRUE,
                                  !.bombsMax = DEFAULT_BOMBS_MAX, !.bombsPlaced = 0,
                                  !.explosionRadius = DEFAULT_RADIUS,
                                  !.speed = DEFAULT_SPEED, !.direction = "down"])
    IN F[Len(connectedPlayers)]

\* --------------------------------------------------------------------- Init
\* The state when the server starts to accept connections: the listen
\* callback has run startRound() on a new GameState.
Init ==
    /\ players = << >>
    /\ bombs = << >>
    /\ explosions = << >>
    /\ powerUps = << >>
    /\ grid \in GeneratedGrids
    /\ winner = NULL
    /\ isGameOver = TRUE
    /\ diffs = QueueUpdate(<< >>, "fullState", "getStateForClient")
    /\ restartTimers = 0
    /\ countdowns = << COUNTDOWN_START >>
    /\ emitted = << >>
    /\ crashed = FALSE
    /\ calls = << >>
    /\ ignored = FALSE
    /\ left \in Budgets

\* ------------------------------------------------------------------ actions
\* socket.on('disconnect'): removePlayer(socket.id)
Disconnect(s) ==
    /\ ~crashed
    /\ s <= left.sockets
    /\ left.leave > 0
    /\ Len(diffs) < MaxDiffs
    /\ players' = SelectSeq(players, LAMBDA p : p.id # s)
    /\ diffs' = QueueUpdate(diffs, "playerLeft", [id |-> s])
    /\ left' = [left EXCEPT !.leave = @ - 1]
    /\ emitted' = << >>
    /\ calls' = << >>
    /\ ignored' = FALSE
    /\ UNCHANGED << bombs, explosions, powerUps, grid, winner, isGameOver,
                    restartTimers, countdowns, crashed >>

\* socket.on('joinGame'): addPlayer(socket.id, nickname).  A socket that has
\* no player yet is a new connection, and socket.io gives it an id that no
\* bomb of an earlier connection carries.
JoinGame(s, nickname) ==
    /\ ~crashed
    /\ HasPlayer(players, s) \/ \A i \in 1..Len(bombs) : bombs[i].ownerId # s
    /\ s <= left.sockets
    /\ left.join > 0
    /\ Len(diffs) < MaxDiffs
    /\ LET playerCount == Len(players)
       IN IF playerCount >= MAX_PLAYERS
          THEN /\ ignored' = TRUE
               /\ UNCHANGED << players, diffs, left >>
          ELSE LET spawn == FindSpawnPoint(playerCount, grid, players)
                   player == NewPlayer(s, nickname, playerCount, spawn)
               IN /\ players' = PutPlayer(players, player)
                  /\ diffs' = QueueUpdate(diffs, "playerJoined", player)
                  /\ left' = [left EXCEPT !.join = @ - 1]
                  /\ ignored' = FALSE
    /\ emitted' = << >>
    /\ calls' = << >>
    /\ UNCHANGED << bombs, explosions, powerUps, grid, winner, isGameOver,
                    restartTimers, countdowns, crashed >>

\* movePlayer's early returns
MoveRejected(s) ==
    \/ isGameOver
    \/ ~HasPlayer(players, s)
    \/ ~players[PlayerIdx(players, s)].isAlive

\* socket.on('move'): movePlayer(socket.id, direction)
Move(s, direction) ==
    /\ ~crashed
    /\ s <= left.sockets
    /\ IF MoveRejected(s)
       THEN /\ ignored' = TRUE
            /\ UNCHANGED << players, powerUps, diffs, left >>
       ELSE LET i == PlayerIdx(players, s)
                player == players[i]
                nextX == StepX(player.x, direction)
                nextY == StepY(player.y, direction)
                faced == [players EXCEPT ![i].direction = direction]
            IN /\ left.move > 0
               /\ Len(diffs) < MaxDiffs
               /\ left' = [left EXCEPT !.move = @ - 1]
               /\ ignored' = FALSE
               /\ IF IsPassable(grid, bombs, nextX, nextY)
                  THEN LET r == CheckPowerUpCollision(
                                  [players |-> [faced EXCEPT ![i].x = nextX,
                                                             ![i].y = nextY],
                                   powerUps |-> powerUps,
                                   diffs |-> QueueUpdate(diffs, "playerMoved",
                                       [id |-> s, x |-> nextX, y |-> nextY,
                                        direction |-> direction])], s)
                       IN /\ players' = r.players
                          /\ powerUps' = r.powerUps
                          /\ diffs' = r.diffs
                  ELSE /\ players' = faced
                       /\ diffs' = QueueUpdate(diffs, "playerFaced",
                                       [id |-> s, direction |-> direction])
                       /\ UNCHANGED powerUps
    /\ emitted' = << >>
    /\ calls' = << >>
    /\ UNCHANGED << bombs, explosions, grid, winner, isGameOver,
                    restartTimers, countdowns, crashed >>

\* placeBomb's early returns without player.bombsPlaced >= player.bombsMax
BombRejectedNoCap(s) ==
    \/ isGameOver
    \/ ~HasPlayer(players, s)
    \/ ~players[PlayerIdx(players, s)].isAlive

\* placeBomb's early returns
BombRejected(s) ==
    \/ isGameOver
    \/ ~HasPlayer(players, s)
    \/ ~players[PlayerIdx(players, s)].isAlive
    \/ players[PlayerIdx(players, s)].bombsPlaced
           >= players[PlayerIdx(players, s)].bombsMax

\* socket.on('bomb'): placeBomb(socket.id)
PlaceBomb(s) ==
    /\ ~crashed
    /\ s <= left.sockets
    /\ IF BombRejected(s)
       THEN /\ ignored' = TRUE
            /\ UNCHANGED << players, bombs, diffs, left >>
       ELSE LET i == PlayerIdx(players, s)
                player == players[i]
                bomb == [x |-> player.x, y |-> player.y, ownerId |-> s,
                         timer |-> BOMB_TIMER, radius |-> player.explosionRadius]
            IN /\ left.bomb > 0
               /\ Len(diffs) < MaxDiffs
               /\ left' = [left EXCEPT !.bomb = @ - 1]
               /\ ignored' = FALSE
               /\ bombs' = PutBomb(bombs, bomb)
               /\ players' = [players EXCEPT ![i].bombsPlaced = @ + 1]
               /\ diffs' = QueueUpdate(diffs, "bombPlaced", bomb)
    /\ emitted' = << >>
    /\ calls' = << >>
    /\ UNCHANGED << explosions, powerUps, grid, winner, isGameOver,
                    restartTimers, countdowns, crashed >>

\* The outcomes of the draws of one gameLoop: trySpawnPowerUp draws only
\* when createExplosion has turned a SOFT tile EMPTY, which takes a SOFT tile
\* on a ray of a bomb.
TickDraws ==
    IF \E i \in 1..Len(bombs), d \in 1..Len(ExplosionDirections) :
          \E n \in 1..bombs[i].radius :
             LET dir == ExplosionDirections[d]
                 x == bombs[i].x + dir[1] * n
                 y == bombs[i].y + dir[2] * n
             IN InBounds(x, y) /\ grid[y][x] = SOFT
    THEN PowerUpDraws
    ELSE {"none"}

\* gameLoop(), one firing of setInterval(gameLoop, 1000 / TICK_RATE).  A
\* RangeError thrown by createExplosion is caught nowhere: the writes made
\* before it remain, the rest of gameLoop does not run, and the process ends.
Tick ==
    /\ ~crashed
    /\ IF isGameOver
       THEN /\ ignored' = TRUE
            /\ emitted' = << >>
            /\ calls' = << >>
            /\ UNCHANGED << players, bombs, explosions, powerUps, grid, winner,
                            isGameOver, diffs, restartTimers, crashed >>
       ELSE \E rnd \in TickDraws :
            LET st0 == [grid |-> grid, bombs |-> bombs, explosions |-> explosions,
                        powerUps |-> powerUps, players |-> players, diffs |-> diffs,
                        calls |-> << >>, overflow |-> FALSE]
                st1 == UpdateBombs(st0, rnd)
                st2 == UpdateExplosions(st1)
                r == CheckForWinner([isGameOver |-> isGameOver, winner |-> winner,
                                     diffs |-> st2.diffs,
                                     restartTimers |-> restartTimers], st2.players)
            IN IF st1.overflow
               THEN /\ crashed' = TRUE
                    /\ grid' = st1.grid
                    /\ bombs' = st1.bombs
                    /\ explosions' = st1.explosions
                    /\ powerUps' = st1.powerUps
                    /\ players' = st1.players
                    /\ diffs' = st1.diffs
                    /\ calls' = st1.calls
                    /\ emitted' = << >>
                    /\ ignored' = FALSE
                    /\ UNCHANGED << winner, isGameOver, restartTimers >>
               ELSE /\ grid' = st2.grid
                    /\ bombs' = st2.bombs
                    /\ explosions' = st2.explosions
                    /\ powerUps' = st2.powerUps
                    /\ players' = st2.players
                    /\ calls' = st2.calls
                    /\ isGameOver' = r.isGameOver
                    /\ winner' = r.winner
                    /\ restartTimers' = r.restartTimers
                    /\ IF Len(r.diffs) > 0
                       THEN emitted' = r.diffs /\ diffs' = << >>
                       ELSE emitted' = << >> /\ diffs' = r.diffs
                    /\ ignored' = FALSE
                    /\ UNCHANGED crashed
    /\ UNCHANGED << countdowns, left >>

\* The setTimeout callback of checkForWinner: startRound(), which is reset()
\* and a new countdownInterval with count = 5.
StartRound ==
    /\ ~crashed
    /\ restartTimers > 0
    /\ restartTimers' = restartTimers - 1
    /\ \E g \in GeneratedGrids :
            /\ grid' = g
            /\ players' = ResetPlayers(players, g)
    /\ isGameOver' = TRUE
    /\ winner' = NULL
    /\ bombs' = << >>
    /\ explosions' = << >>
    /\ powerUps' = << >>
    /\ diffs' = QueueUpdate(diffs, "fullState", "getStateForClient")
    /\ countdowns' = Append(countdowns, COUNTDOWN_START)
    /\ emitted' = << >>
    /\ calls' = << >>
    /\ ignored' = FALSE
    /\ UNCHANGED << crashed, left >>

\* One firing of the countdownInterval that is k-th in countdowns.
Countdown(k) ==
    /\ ~crashed
    /\ k \in 1..Len(countdowns)
    /\ LET count == countdowns[k]
       IN /\ emitted' = QueueUpdate(diffs, "countdown", [value |-> count])
          /\ diffs' = << >>
          /\ IF count - 1 < 0
             THEN /\ countdowns' = RemoveAt(countdowns, k)
                  /\ isGameOver' = FALSE
             ELSE /\ countdowns' = [countdowns EXCEPT ![k] = count - 1]
                  /\ UNCHANGED isGameOver
          /\ ignored' = FALSE
    /\ calls' = << >>
    /\ UNCHANGED << players, bombs, explosions, powerUps, grid, winner,
                    restartTimers, crashed, left >>

\* gameLoop has work to do: a bomb or an explosion has reached its time, a
\* living player stands in an explosion, the round is decided, or the diff
\* log holds events.
TickDue ==
    \/ \E i \in 1..Len(bombs) : 0 >= bombs[i].timer
    \/ \E i \in 1..Len(explosions) : 0 >= explosions[i].createdAt + EXPLOSION_DURATION
    \/ \E i \in 1..Len(players), j \in 1..Len(explosions) :
           players[i].isAlive /\ <<players[i].x, players[i].y>> \in explosions[j].tiles
    \/ Len(players) >= 2 /\ Cardinality({ i \in 1..Len(players) : players[i].isAlive }) <= 1
    \/ Len(diffs) > 0

\* TimeStep milliseconds pass.  Only gameLoop reads the clock, and it does
\* nothing while isGameOver.  gameLoop fires every 1000 / TICK_RATE = 50 ms,
\* so it has run, and has nothing left to do, before TimeStep is over.
AdvanceTime ==
    /\ ~crashed
    /\ ~isGameOver
    /\ ~TickDue
    /\ bombs # << >> \/ explosions # << >>
    /\ bombs' = [i \in 1..Len(bombs) |-> [bombs[i] EXCEPT !.timer = @ - TimeStep]]
    /\ explosions' = [i \in 1..Len(explosions) |->
                        [explosions[i] EXCEPT !.createdAt = @ - TimeStep]]
    /\ emitted' = << >>
    /\ calls' = << >>
    /\ ignored' = FALSE
    /\ UNCHANGED << players, powerUps, grid, winner, isGameOver, diffs,
                    restartTimers, countdowns, crashed, left >>

Next ==
    \/ \E s \in Sockets : Disconnect(s)
    \/ \E s \in Sockets : JoinGame(s, NicknameOf(s))
    \/ \E s \in Sockets, direction \in MoveInputs : Move(s, direction)
    \/ \E s \in Sockets : PlaceBomb(s)
    \/ Tick
    \/ StartRound
    \/ \E k \in 1..Len(countdowns) : Countdown(k)
    \/ AdvanceTime

Spec == Init /\ [][Next]_vars

\* The timers fire: the setTimeout callback of checkForWinner runs once it is
\* due, and a countdownInterval keeps firing until it is cleared.  Neither is
\* ever cancelled from outside; only the end of the process stops them.
FairSpec ==
    /\ Spec
    /\ WF_vars(StartRound)
    /\ WF_vars(\E k \in 1..Len(countdowns) : Countdown(k))

\* ------------------------------------------------- movePlayer, createExplosion
\* movePlayer, isPassable and createExplosion read this.grid cell by cell,
\* whatever grid it is.  SpecBlast runs them in an active round of one player
\* on grids with an open passage: a border cell that is EMPTY, SOFT and EMPTY
\* cells in a row and a column from the first spawn.
ArenaCells ==
    { <<0, 1, EMPTY>>, <<3, 1, SOFT>>, <<4, 1, SOFT>>, <<5, 1, EMPTY>>,
      <<1, 3, EMPTY>>, <<1, 4, SOFT>> }

Arena(g) ==
    [y \in 0..GRID_HEIGHT - 1 |->
        [x \in 0..GRID_WIDTH - 1 |->
            IF \E c \in ArenaCells : c[1] = x /\ c[2] = y
            THEN (CHOOSE c \in ArenaCells : c[1] = x /\ c[2] = y)[3]
            ELSE g[y][x]]]

BlastGrids == { Arena(g) : g \in GeneratedGrids }

\* explosionRadius starts at 2 and the bomb_range power-up adds to it.
BlastRadii == { DEFAULT_RADIUS, DEFAULT_RADIUS + 1 }

InitBlast ==
    /\ \E radius \in BlastRadii :
          players = << [NewPlayer(1, NicknameOf(1), 0, PLAYER_SPAWNS[1])
                           EXCEPT !.explosionRadius = radius] >>
    /\ bombs = << >>
    /\ explosions = << >>
    /\ powerUps = << >>
    /\ grid \in BlastGrids
    /\ winner = NULL
    /\ isGameOver = FALSE
    /\ diffs = << >>
    /\ restartTimers = 0
    /\ countdowns = << >>
    /\ emitted = << >>
    /\ crashed = FALSE
    /\ calls = << >>
    /\ ignored = FALSE
    /\ left = [sockets |-> 1, join |-> 0, move |-> BlastMoves,
               bomb |-> BlastBombs, leave |-> 0]

NextBlast ==
    \/ \E s \in Sockets, direction \in MoveInputs : Move(s, direction)
    \/ \E s \in Sockets : PlaceBomb(s)
    \/ Tick
    \/ AdvanceTime

SpecBlast == InitBlast /\ [][NextBlast]_vars

\* ------------------------------------------------------------ findSpawnPoint
\* findSpawnPoint leaves the corner seats from the fifth player on, and reset()
\* respawns however many players are connected.  SpecCrowd starts where a
\* played round has ended with CrowdSockets players connected: connections 1
\* and 2 joined and played, player 1 died in the blast of its own bomb on its
\* spawn, which made player 2 the winner, and the other connections joined
\* while the restart timer was pending.

\* addPlayer(id, nickname) on the players ps and the grid g
AddPlayer(ps, g, id, nickname) ==
    LET playerCount == Len(ps)
        spawn == FindSpawnPoint(playerCount, g, ps)
    IN PutPlayer(ps, NewPlayer(id, nickname, playerCount, spawn))

\* The players after connections 1..n have joined in turn
CrowdPlayers(g, n) ==
    LET F[i \in 0..n] ==
            IF i = 0 THEN << >>
            ELSE LET prev == F[i - 1]
                 IN AddPlayer(prev, g, i, NicknameOf(i))
    IN F[n]

InitCrowd ==
    /\ grid \in GeneratedGrids
    /\ LET joined == CrowdPlayers(grid, CrowdSockets)
           blast == [x |-> joined[1].x, y |-> joined[1].y,
                     tiles |-> { <<1, 1>>, <<1, 2>>, <<2, 1>> }, createdAt |-> 0]
       IN /\ players = [joined EXCEPT ![1].isAlive = FALSE]
          /\ explosions = << blast >>
          /\ winner = joined[2].nickname
          /\ diffs = [k \in 1..(CrowdSockets - 2) |->
                         [type |-> "playerJoined", data |-> joined[k + 2]]]
    /\ bombs = << >>
    /\ powerUps = << >>
    /\ isGameOver = TRUE
    /\ restartTimers = 1
    /\ countdowns = << >>
    /\ emitted = << >>
    /\ crashed = FALSE
    /\ calls = << >>
    /\ ignored = FALSE
    /\ left = [sockets |-> CrowdSockets, join |-> CrowdJoins, move |-> CrowdMoves,
               bomb |-> CrowdBombs, leave |-> CrowdLeaves]

\* The connections that send move and bomb intents in a run of SpecCrowd: the
\* first, which has a corner seat, and the last, which has none.  The last
\* one may also leave and join.
CrowdActors == { 1, CrowdSockets }

NextCrowd ==
    \/ Disconnect(CrowdSockets)
    \/ JoinGame(CrowdSockets, NicknameOf(CrowdSockets))
    \/ \E s \in CrowdActors, direction \in MoveInputs : Move(s, direction)
    \/ \E s \in CrowdActors : PlaceBomb(s)
    \/ Tick
    \/ StartRound
    \/ \E k \in 1..Len(countdowns) : Countdown(k)
    \/ AdvanceTime

SpecCrowd == InitCrowd /\ [][NextCrowd]_vars

\* ------------------------------------------------------------------- claims
IsPrefix(a, b) == Len(a) <= Len(b) /\ SubSeq(b, 1, Len(a)) = a

AliveAfter == { i \in 1..Len(players') : players'[i].isAlive }

\* The cell at distance n from (x, y) in direction number d
CellAt(x, y, d, n) ==
    << x + ExplosionDirections[d][1] * n, y + ExplosionDirections[d][2] * n >>

\* A blast of radius r from (x, y) on grid g reaches the cell at distance n
\* in direction d: no cell up to it is out of bounds or SOLID, and no cell
\* before it is SOFT.
BlastReaches(g, x, y, r, d, n) ==
    /\ n <= r
    /\ \A m \in 1..n :
          /\ InBounds(CellAt(x, y, d, m)[1], CellAt(x, y, d, m)[2])
          /\ g[CellAt(x, y, d, m)[2]][CellAt(x, y, d, m)[1]] # SOLID
    /\ \A m \in 1..(n - 1) : g[CellAt(x, y, d, m)[2]][CellAt(x, y, d, m)[1]] # SOFT

BlastTiles(g, x, y, r) ==
    { <<x, y>> } \cup
    { c \in { CellAt(x, y, d, n) : d \in 1..4, n \in 1..r } :
        \E d \in 1..4, n \in 1..r :
            c = CellAt(x, y, d, n) /\ BlastReaches(g, x, y, r, d, n) }

\* C1: within one gameLoop no bomb is detonated more than once: the
\* createExplosion invocations of a tick are for pairwise different bombs.
C1_DetonatedOnce ==
    \A i, j \in 1..Len(calls) : calls[i].id = calls[j].id => i = j

\* C2: the bomb resolution of every gameLoop terminates: the chain of
\* createExplosion invocations that updateBombs starts always returns, it
\* never recurses until the call stack is exhausted.
C2_Terminates == ~crashed

\* C3: with exactly two players in an active round, the step in which a
\* player is marked dead sets isGameOver, sets winner to the nickname of the
\* player still alive, or to the draw marker when none is, and hands a
\* gameOver event with that winner to the transport.
C3_WinSameTick ==
    [][ ( /\ ~isGameOver
          /\ Len(players) = 2 /\ Len(players') = 2
          /\ \E i \in 1..2 : /\ players'[i].id = players[i].id
                             /\ players[i].isAlive /\ ~players'[i].isAlive )
        => LET w == IF AliveAfter = {} THEN DRAW
                    ELSE players'[CHOOSE i \in AliveAfter : TRUE].nickname
           IN /\ Cardinality(AliveAfter) <= 1
              /\ isGameOver'
              /\ winner' = w
              /\ \E k \in 1..Len(emitted') :
                    /\ emitted'[k].type = "gameOver"
                    /\ emitted'[k].data.winner = w ]_vars

\* a surviving player is declared the winner in the tick the other one died
C3_Witness ==
    /\ isGameOver /\ winner # NULL /\ winner # DRAW
    /\ Len(players) = 2
    /\ \E i, j \in 1..2 : /\ players[i].isAlive /\ ~players[j].isAlive
                          /\ winner = players[i].nickname
    /\ \E k \in 1..Len(emitted) : emitted[k].type = "gameOver"

AtCap(ps, s) ==
    ps[PlayerIdx(ps, s)].bombsPlaced >= ps[PlayerIdx(ps, s)].bombsMax

\* C4: a bomb intent of a player whose bombsPlaced has reached bombsMax
\* creates no bomb, and within a round such a player gets below the cap
\* again only in a step in which one of that player's bombs detonates.
C4_BombCap ==
    [][ \A s \in Sockets :
          ( /\ HasPlayer(players, s) /\ HasPlayer(players', s)
            /\ restartTimers' = restartTimers
            /\ AtCap(players, s) )
          => /\ PlaceBomb(s) => bombs' = bombs
             /\ ~AtCap(players', s) =>
                   \E k \in 1..Len(calls') : calls'[k].id[1] = s ]_vars

\* The cell a move in a cardinal direction aims at
C5_Target(p, direction) ==
    IF direction = "up" THEN << p.x, p.y - 1 >>
    ELSE IF direction = "down" THEN << p.x, p.y + 1 >>
    ELSE IF direction = "left" THEN << p.x - 1, p.y >>
    ELSE << p.x + 1, p.y >>

C5_Blocked(p, direction) ==
    LET c == C5_Target(p, direction)
    IN \/ ~InBounds(c[1], c[2])
       \/ grid[c[2]][c[1]] = SOLID
       \/ grid[c[2]][c[1]] = SOFT
       \/ \E i \in 1..Len(bombs) : bombs[i].x = c[1] /\ bombs[i].y = c[2]

\* C5: a move of an alive player in an active round, in a cardinal direction
\* and onto a cell that is out of bounds, SOLID, SOFT or holds a bomb, leaves
\* the player where it is, turns it to the direction asked for, and queues
\* one playerFaced event and nothing else.
C5_BlockedMove ==
    [][ \A s \in Sockets, direction \in Directions :
          ( /\ Move(s, direction)
            /\ ~isGameOver
            /\ HasPlayer(players, s)
            /\ players[PlayerIdx(players, s)].isAlive
            /\ C5_Blocked(players[PlayerIdx(players, s)], direction) )
          => /\ players' = [players EXCEPT ![PlayerIdx(players, s)].direction = direction]
             /\ diffs' = Append(diffs, [type |-> "playerFaced",
                                        data |-> [id |-> s, direction |-> direction]]) ]_vars

\* a player has just turned towards a SOFT tile it could not enter
C5_Witness ==
    /\ diffs # << >>
    /\ diffs[Len(diffs)].type = "playerFaced"
    /\ \E i \in 1..Len(players) :
          /\ players[i].id = diffs[Len(diffs)].data.id
          /\ players[i].direction = diffs[Len(diffs)].data.direction
          /\ players[i].direction \in Directions
          /\ LET c == C5_Target(players[i], players[i].direction)
             IN InBounds(c[1], c[2]) /\ grid[c[2]][c[1]] = SOFT

\* C6: a gameLoop that detonates one bomb, at (x, y) with radius r, hands
\* over an explosion whose tiles are the origin and, in each direction, the
\* cells at distance 1..r before the first cell that is out of bounds or
\* SOLID, up to and including the first SOFT cell; the SOFT cells among them
\* become EMPTY and no other cell of the grid changes.
C6_BlastShape ==
    [][ (Len(calls') = 1 /\ ~crashed')
        => LET c == calls'[1]
               tiles == BlastTiles(grid, c.x, c.y, c.radius)
           IN /\ \E k \in 1..Len(emitted') :
                    /\ emitted'[k].type = "explosion"
                    /\ emitted'[k].data.x = c.x /\ emitted'[k].data.y = c.y
                    /\ emitted'[k].data.tiles = tiles
              /\ \A t \in tiles :
                    grid[t[2]][t[1]] = SOFT => grid'[t[2]][t[1]] = EMPTY
              /\ { t \in (0..GRID_WIDTH - 1) \X (0..GRID_HEIGHT - 1) :
                     grid'[t[2]][t[1]] # grid[t[2]][t[1]] }
                    = { t \in tiles : grid[t[2]][t[1]] = SOFT } ]_vars

\* an explosion has stopped on a SOFT tile at distance 1, short of its radius,
\* and has stopped short of the border it faces
C6_Witness ==
    /\ Len(calls) = 1 /\ ~crashed
    /\ calls[1].x = 2 /\ calls[1].y = 1
    /\ \E k \in 1..Len(emitted) :
          /\ emitted[k].type = "explosion"
          /\ <<3, 1>> \in emitted[k].data.tiles
          /\ <<4, 1>> \notin emitted[k].data.tiles
          /\ <<2, 0>> \notin emitted[k].data.tiles
    /\ grid[1][3] = EMPTY /\ grid[1][4] = SOFT

\* C7: a bomb that the blast of another bomb reaches is, by the end of that
\* gameLoop, gone from this.bombs, has an explosion of its own at its own
\* position whose tiles follow from its own radius, and has had its owner's
\* bombsPlaced decremented.
C7_ChainReaction ==
    [][ \A k \in 1..Len(calls') :
          calls'[k].chained =>
             LET c == calls'[k]
             IN /\ ~HasBomb(bombs', c.id)
                /\ \E i \in 1..Len(explosions') :
                      /\ explosions'[i].x = c.x /\ explosions'[i].y = c.y
                      /\ explosions'[i].createdAt = 0
                      /\ BlastTiles(grid, c.x, c.y, c.radius) \subseteq explosions'[i].tiles
                      /\ explosions'[i].tiles \subseteq BlastTiles(grid', c.x, c.y, c.radius)
                /\ (HasPlayer(players, c.id[1]) /\ HasPlayer(players', c.id[1]))
                      => players'[PlayerIdx(players', c.id[1])].bombsPlaced
                           < players[PlayerIdx(players, c.id[1])].bombsPlaced ]_vars

\* The state reset() leaves: every connected player alive with the default
\* stats, no bombs, explosions or power-ups, a generated grid, no winner.
C8_AfterReset ==
    /\ \A i \in 1..Len(players) :
          /\ players[i].isAlive
          /\ players[i].bombsMax = DEFAULT_BOMBS_MAX
          /\ players[i].bombsPlaced = 0
          /\ players[i].explosionRadius = DEFAULT_RADIUS
          /\ players[i].speed = DEFAULT_SPEED
    /\ bombs = << >> /\ explosions = << >> /\ powerUps = << >>
    /\ grid \in GeneratedGrids
    /\ winner = NULL
    /\ isGameOver

\* C8: once a win has set isGameOver, the restart timer and the countdown
\* firing, a reset follows that leaves every connected player alive with the
\* default stats, no bombs, explosions or power-ups, a generated grid and no
\* winner; isGameOver stays true until the countdown after that reset has
\* run out, and then the round is active again.
C8_RoundRestart ==
    /\ [][ restartTimers' < restartTimers
           => /\ C8_AfterReset'
              /\ { players'[i].id : i \in 1..Len(players') }
                    = { players[i].id : i \in 1..Len(players) } ]_vars
    /\ [][ (isGameOver /\ ~isGameOver')
           => /\ restartTimers = 0 /\ winner = NULL
              /\ countdowns = << 0 >> /\ countdowns' = << >> ]_vars
    /\ (isGameOver /\ restartTimers > 0) ~> (restartTimers = 0 /\ C8_AfterReset)
    /\ isGameOver ~> ~isGameOver

\* a round that was played and won has been reset, with both players alive
C8_Witness ==
    /\ C8_AfterReset
    /\ Len(players) = 2
    /\ left.bomb < DuoBombs
    /\ restartTimers = 0
    /\ countdowns = << COUNTDOWN_START >>

\* C9: every step either hands nothing over and only appends to the diff
\* log, or hands over the whole log, in the order of appending, and leaves
\* it empty; and no event is dropped: the process never ends with events
\* still in the log.
C9_Delivery ==
    [][ /\ \/ emitted' = << >> /\ IsPrefix(diffs, diffs')
           \/ emitted' # << >> /\ diffs' = << >> /\ IsPrefix(diffs, emitted')
        /\ crashed' => diffs' = << >> ]_vars

C10_Kept ==
    UNCHANGED << players, bombs, explosions, grid, powerUps, winner, diffs >>

C10_NoActor(s) ==
    \/ isGameOver
    \/ \A i \in 1..Len(players) : players[i].id # s
    \/ \E i \in 1..Len(players) : players[i].id = s /\ ~players[i].isAlive

\* C10: a move or a bomb intent while isGameOver, or of a connection whose
\* player does not exist or is dead, a bomb intent of a player whose
\* bombsPlaced has reached bombsMax, and a gameLoop while isGameOver, change
\* none of players, bombs, explosions, grid, power-ups, winner and diff log.
C10_RejectedNoOp ==
    [][ /\ \A s \in Sockets, direction \in MoveInputs :
              (C10_NoActor(s) /\ Move(s, direction)) => C10_Kept
        /\ \A s \in Sockets :
              ( /\ \/ C10_NoActor(s)
                   \/ \E i \in 1..Len(players) :
                         /\ players[i].id = s
                         /\ players[i].bombsPlaced >= players[i].bombsMax
                /\ PlaceBomb(s) ) => C10_Kept
        /\ (isGameOver /\ Tick) => C10_Kept ]_vars

\* a bomb intent has just been ignored for a living player at the cap, in an
\* active round
C10_Witness ==
    /\ ignored /\ ~isGameOver
    /\ left.sockets = 1
    /\ Len(players) = 1
    /\ players[1].isAlive
    /\ players[1].bombsPlaced >= players[1].bombsMax
    /\ Len(bombs) > 0

\* C11: no two live bombs occupy the same grid cell.
C11_OneBombPerCell ==
    \A i, j \in 1..Len(bombs) :
        (bombs[i].x = bombs[j].x /\ bombs[i].y = bombs[j].y) => i = j

\* The connections known to have joined: those with a player, and those whose
\* playerJoined event is still in the diff log.
C12_EverJoined ==
    { players[i].id : i \in 1..Len(players) }
    \cup { diffs[k].data.id :
             k \in { n \in 1..Len(diffs) : diffs[n].type = "playerJoined" } }

\* C12: a gameLoop of an active round, when at least two players have ever
\* joined and at most one player is alive after it, sets isGameOver and the
\* winner; a second player who has disconnected since counts.
C12_WinTrigger ==
    [][ ( /\ Tick
          /\ ~isGameOver
          /\ Cardinality(C12_EverJoined) >= 2
          /\ Cardinality(AliveAfter) <= 1 )
        => (isGameOver' /\ winner' # NULL) ]_vars

\* C13: every border cell and every interior cell with x and y both even is
\* SOLID, after generation and in every later state.
C13_SolidPillars ==
    \A y \in 0..GRID_HEIGHT - 1, x \in 0..GRID_WIDTH - 1 :
        ( \/ y = 0 \/ y = GRID_HEIGHT - 1 \/ x = 0 \/ x = GRID_WIDTH - 1
          \/ (x % 2 = 0 /\ y % 2 = 0) )
        => grid[y][x] = SOLID

\* C14: on a generated grid, the gameLoop that detonates the one bomb of
\* radius 2 placed on the spawn (1,1) hands over an explosion whose tiles
\* include (1,1), (1,2), (1,3), (2,1) and (3,1) and not the border cell (0,1).
C14_SpawnBlast ==
    [][ ( /\ Len(calls') = 1 /\ ~crashed'
          /\ calls'[1].x = PLAYER_SPAWNS[1].x /\ calls'[1].y = PLAYER_SPAWNS[1].y
          /\ calls'[1].radius = DEFAULT_RADIUS
          /\ grid \in GeneratedGrids )
        => \E k \in 1..Len(emitted') :
              /\ emitted'[k].type = "explosion"
              /\ { <<1, 1>>, <<1, 2>>, <<1, 3>>, <<2, 1>>, <<3, 1>> }
                    \subseteq emitted'[k].data.tiles
              /\ <<0, 1>> \notin emitted'[k].data.tiles ]_vars

\* C15: a move of an alive player in an active round in a direction that is
\* none of up, down, left, right changes nothing of the player but its
\* facing, queues no playerMoved event and picks up no power-up.
C15_UnknownDirection ==
    [][ \A s \in Sockets, direction \in MoveInputs \ Directions :
          (Move(s, direction) /\ ~MoveRejected(s))
          => /\ players' = [players EXCEPT
                               ![PlayerIdx(players, s)].direction = direction]
             /\ \A k \in (Len(diffs) + 1)..Len(diffs') :
                   diffs'[k].type # "playerMoved"
             /\ powerUps' = powerUps ]_vars

\* C16: every connected player's bombsPlaced is the number of live bombs
\* whose ownerId is that player, and lies between 0 and bombsMax.
C16_BombsPlacedCount ==
    \A i \in 1..Len(players) :
        /\ players[i].bombsPlaced
             = Cardinality({ k \in 1..Len(bombs) : bombs[k].ownerId = players[i].id })
        /\ 0 <= players[i].bombsPlaced
        /\ players[i].bombsPlaced <= players[i].bombsMax

\* C17: a dead player stays dead until the next reset: only a step that runs
\* reset() turns a connected player's isAlive from false to true.
C17_DeathPermanent ==
    [][ \A s \in Sockets :
          ( /\ HasPlayer(players, s) /\ HasPlayer(players', s)
            /\ ~players[PlayerIdx(players, s)].isAlive
            /\ players'[PlayerIdx(players', s)].isAlive )
          => restartTimers' < restartTimers ]_vars

\* C19: after a join of a new connection while fewer than four players are
\* connected, no other connected player stands on the new player's cell.
C19_FreeSeat ==
    [][ \A s \in Sockets :
          ( /\ JoinGame(s, NicknameOf(s))
            /\ ~HasPlayer(players, s) /\ HasPlayer(players', s)
            /\ Len(players) < Len(PLAYER_SPAWNS) )
          => \A i \in 1..Len(players') :
                players'[i].id # s
                => << players'[i].x, players'[i].y >>
                     # << players'[PlayerIdx(players', s)].x,
                          players'[PlayerIdx(players', s)].y >> ]_vars

\* C18: every connected player stands inside the grid on an EMPTY cell.
C18_OnEmptyCell ==
    \A i \in 1..Len(players) :
        /\ InBounds(players[i].x, players[i].y)
        /\ grid[players[i].y][players[i].x] = EMPTY

\* after a reset with more players than corner seats, the last player stands
\* on a cell that is no corner seat and the first has walked off its seat
C18_Witness ==
    /\ restartTimers = 0
    /\ Len(players) = CrowdSockets
    /\ \A k \in 1..Len(PLAYER_SPAWNS) :
          << players[CrowdSockets].x, players[CrowdSockets].y >>
             # << PLAYER_SPAWNS[k].x, PLAYER_SPAWNS[k].y >>
    /\ players[1].id = 1
    /\ << players[1].x, players[1].y >> # << PLAYER_SPAWNS[1].x, PLAYER_SPAWNS[1].y >>

C20_Untouched ==
    /\ powerUps = << >>
    /\ \A i \in 1..Len(players) :
          /\ players[i].bombsMax = DEFAULT_BOMBS_MAX
          /\ players[i].explosionRadius = DEFAULT_RADIUS
          /\ players[i].speed = DEFAULT_SPEED
    /\ \A k \in 1..Len(diffs) : diffs[k].type \notin {"tileChanged", "powerUpSpawned"}
    /\ \A k \in 1..Len(emitted) : emitted[k].type \notin {"tileChanged", "powerUpSpawned"}

\* C20: on generated grids no explosion reaches a SOFT tile: only reset()
\* changes the grid, no tileChanged or powerUpSpawned event is queued or
\* handed over, there is no power-up, and every player keeps bombsMax 1,
\* explosionRadius 2 and speed 1.
C20_NoSoftReached ==
    /\ [] C20_Untouched
    /\ [][ restartTimers' = restartTimers => grid' = grid ]_vars

\* a bomb has gone off on a cell with a SOFT tile two cells away in line, and
\* the blast has not left the bomb's cell
C20_Witness ==
    /\ restartTimers = 0
    /\ \E j \in 1..Len(explosions) :
          /\ explosions[j].tiles = { << explosions[j].x, explosions[j].y >> }
          /\ \E d \in 1..Len(ExplosionDirections) :
                LET c == CellAt(explosions[j].x, explosions[j].y, d, DEFAULT_RADIUS)
                IN InBounds(c[1], c[2]) /\ grid[c[2]][c[1]] = SOFT

====
